---- MODULE Spec2Model ----
(***************************************************************************)
(* Model of the contact form page (src/unnamed/part_000): the React state  *)
(* of Home(), the validator validateForm, the submit handler, the seven    *)
(* inline field handlers and the 5000 ms auto-dismiss timer.               *)
(*                                                                         *)
(* Strings are sequences of one-character strings, so that length and      *)
(* trim are computed as String.length and String.prototype.trim do.        *)
(* A FormErrorsProps object is a function whose DOMAIN is the set of own   *)
(* keys (Object.keys) and whose values are messages or Undefined: the      *)
(* field handlers write `f: newErrors.f`, which creates the key f even     *)
(* when newErrors.f is undefined.                                          *)
(***************************************************************************)
EXTENDS Integers, Sequences, FiniteSets, TLC

VARIABLES firstName, lastName, email, selectedQuery, consent, message,
          errors, formSubmitted, showPopup,
          timers,        \* pending setTimeout callbacks: ms left, in scheduling order
          lastEvent,     \* history: kind of the last event handled
          lastSubmit,    \* history: outcome of the most recent submit
          priorPending   \* history: a timer was already pending at the most recent submit

values == <<firstName, lastName, email, selectedQuery, consent, message>>
vars == <<firstName, lastName, email, selectedQuery, consent, message,
          errors, formSubmitted, showPopup, timers,
          lastEvent, lastSubmit, priorPending>>

----------------------------------------------------------------------------
(* Bounds of the model *)

\* at most this many auto-dismiss timers pending at once
MaxTimers == 2
\* the longest stretch of time that passes in one step
TickMs == 2500

(* Program constants *)
NameMin == 2
NameMax == 50
MessageMin == 10
MessageMax == 500
MaxLength == 500
Delay == 5000

----------------------------------------------------------------------------
(* Strings *)

Null == "null"
Undefined == "undefined"

Rep(c, n) == [i \in 1..n |-> c]

Whitespace == {" ", "\t", "\n"}

\* String.prototype.trim: strip leading and trailing whitespace
Trim(s) ==
  IF \A i \in 1..Len(s) : s[i] \in Whitespace THEN <<>>
  ELSE LET lo == CHOOSE i \in 1..Len(s) :
                   /\ s[i] \notin Whitespace
                   /\ \A j \in 1..(i - 1) : s[j] \in Whitespace
           hi == CHOOSE i \in 1..Len(s) :
                   /\ s[i] \notin Whitespace
                   /\ \A j \in (i + 1)..Len(s) : s[j] \in Whitespace
       IN SubSeq(s, lo, hi)

Letters == {"a","b","c","d","e","f","g","h","i","j","k","l","m",
            "n","o","p","q","r","s","t","u","v","w","x","y","z",
            "A","B","C","D","E","F","G","H","I","J","K","L","M",
            "N","O","P","Q","R","S","T","U","V","W","X","Y","Z"}
Digits == {"0","1","2","3","4","5","6","7","8","9"}
AlNum == Letters \cup Digits

IndicesOf(s, c) == {i \in 1..Len(s) : s[i] = c}

\* ([A-Z0-9][A-Z0-9\-]*\.)+[A-Z]{2,}
DomainOK(d) ==
  LET dots == IndicesOf(d, ".")
  IN /\ dots # {}
     /\ LET last == CHOOSE i \in dots : \A j \in dots : j <= i
        IN /\ Len(d) - last >= 2
           /\ \A i \in (last + 1)..Len(d) : d[i] \in Letters
           /\ \A i \in 1..last :
                IF i = 1 \/ (i > 1 /\ d[i - 1] = ".")
                THEN d[i] \in AlNum
                ELSE d[i] \in AlNum \cup {"-", "."}

\* z.string().email(), zod 3.22's pattern, case-insensitive:
\* ^(?!\.)(?!.*\.\.)([A-Z0-9_'+\-\.]*)[A-Z0-9_+-]@([A-Z0-9][A-Z0-9\-]*\.)+[A-Z]{2,}$
IsEmail(s) ==
  LET ats == IndicesOf(s, "@")
  IN /\ Cardinality(ats) = 1
     /\ LET at == CHOOSE i \in ats : TRUE
        IN /\ at > 1
           /\ s[1] # "."
           /\ \A i \in 1..(Len(s) - 1) : ~(s[i] = "." /\ s[i + 1] = ".")
           /\ \A i \in 1..(at - 2) : s[i] \in AlNum \cup {"_", "'", "+", "-", "."}
           /\ s[at - 1] \in AlNum \cup {"_", "+", "-"}
           /\ DomainOK(SubSeq(s, at + 1, Len(s)))

----------------------------------------------------------------------------
(* Schemas, lines 24-29 *)

QueryTypes == {"generalEnquiry", "supportRequest"}

queryTypeSchema(v) == v \in QueryTypes
firstNameSchema(v) == Len(v) >= NameMin /\ Len(v) <= NameMax
lastNameSchema(v) == Len(v) >= NameMin /\ Len(v) <= NameMax
emailSchema(v) == IsEmail(v)
messageSchema(v) == Len(v) >= MessageMin /\ Len(v) <= MessageMax
consentSchema(v) == v = TRUE

Fields == {"queryType", "firstName", "lastName", "email", "message", "consent"}

QueryTypeMsg == "Please select a query type"
FirstNameMsg == "First name must be between 2 and 50 characters"
LastNameMsg == "Last name must be between 2 and 50 characters"
RequiredMsg == "This field is required"
EmailMsg == "Please enter a valid email address"
MessageMsg == "Message must be between 10 and 500 characters."
ConsentMsg == "To submit this form, please consent to being contacted"

\* the object {}
EmptyErrors == <<>>

\* errors.f as an expression: undefined when the key is absent
Get(errs, f) == IF f \in DOMAIN errs THEN errs[f] ELSE Undefined

getFormData ==
  [queryType |-> selectedQuery, firstName |-> firstName, lastName |-> lastName,
   email |-> email, message |-> message, consent |-> consent]

\* mutant: the required check is tried before the length check
validateFormTrimFirst(formData) ==
  (IF ~queryTypeSchema(formData.queryType)
     THEN "queryType" :> QueryTypeMsg ELSE EmptyErrors)
  @@ (IF Trim(formData.firstName) = <<>> THEN "firstName" :> RequiredMsg
      ELSE IF ~firstNameSchema(formData.firstName) THEN "firstName" :> FirstNameMsg
      ELSE EmptyErrors)
  @@ (IF Trim(formData.lastName) = <<>> THEN "lastName" :> RequiredMsg
      ELSE IF ~lastNameSchema(formData.lastName) THEN "lastName" :> LastNameMsg
      ELSE EmptyErrors)
  @@ (IF ~emailSchema(formData.email) THEN "email" :> EmailMsg ELSE EmptyErrors)
  @@ (IF Trim(formData.message) = <<>> THEN "message" :> RequiredMsg
      ELSE IF ~messageSchema(formData.message) THEN "message" :> MessageMsg
      ELSE EmptyErrors)
  @@ (IF ~consentSchema(formData.consent)
     THEN "consent" :> ConsentMsg ELSE EmptyErrors)

\* mutant: the email is only checked once the first name has passed
validateFormEmailAfterName(formData) ==
  (IF ~queryTypeSchema(formData.queryType)
     THEN "queryType" :> QueryTypeMsg ELSE EmptyErrors)
  @@ (IF ~firstNameSchema(formData.firstName) THEN "firstName" :> FirstNameMsg
      ELSE IF Trim(formData.firstName) = <<>> THEN "firstName" :> RequiredMsg
      ELSE EmptyErrors)
  @@ (IF ~lastNameSchema(formData.lastName) THEN "lastName" :> LastNameMsg
      ELSE IF Trim(formData.lastName) = <<>> THEN "lastName" :> RequiredMsg
      ELSE EmptyErrors)
  @@ (IF firstNameSchema(formData.firstName) /\ ~emailSchema(formData.email)
      THEN "email" :> EmailMsg ELSE EmptyErrors)
  @@ (IF ~messageSchema(formData.message) THEN "message" :> MessageMsg
      ELSE IF Trim(formData.message) = <<>> THEN "message" :> RequiredMsg
      ELSE EmptyErrors)
  @@ (IF ~consentSchema(formData.consent)
     THEN "consent" :> ConsentMsg ELSE EmptyErrors)

validateForm(formData) ==
  (IF ~queryTypeSchema(formData.queryType)
     THEN "queryType" :> QueryTypeMsg ELSE EmptyErrors)
  @@ (IF ~firstNameSchema(formData.firstName) THEN "firstName" :> FirstNameMsg
      ELSE IF Trim(formData.firstName) = <<>> THEN "firstName" :> RequiredMsg
      ELSE EmptyErrors)
  @@ (IF ~lastNameSchema(formData.lastName) THEN "lastName" :> LastNameMsg
      ELSE IF Trim(formData.lastName) = <<>> THEN "lastName" :> RequiredMsg
      ELSE EmptyErrors)
  @@ (IF ~emailSchema(formData.email) THEN "email" :> EmailMsg ELSE EmptyErrors)
  @@ (IF ~messageSchema(formData.message) THEN "message" :> MessageMsg
      ELSE IF Trim(formData.message) = <<>> THEN "message" :> RequiredMsg
      ELSE EmptyErrors)
  @@ (IF ~consentSchema(formData.consent)
     THEN "consent" :> ConsentMsg ELSE EmptyErrors)

----------------------------------------------------------------------------
(* Inputs *)

Jane == <<"J","a","n","e">>
Doe == <<"D","o","e">>
JaneAtExample ==
  <<"j","a","n","e","@","e","x","a","m","p","l","e",".","c","o","m">>
Hello == <<"H","e","l","l","o",",",".",".",".","!">>

\* what gets typed into the inputs
TypedFirstNames == {Jane, Rep(" ", NameMin)}
TypedLastNames == {Doe}
\* every name the validator is tried on
NameInputs ==
  {<<>>, <<"J">>, <<"J","o">>, Jane, <<" ">>, Rep(" ", NameMin),
   <<" ","x"," ">>, Rep("a", NameMax), Rep("a", NameMax + 1),
   Rep(" ", NameMax + 1)}
LastNameInputs == {<<>>, Doe, Rep(" ", NameMin)}

TypedEmails == {JaneAtExample, <<"a","@","b">>}
EmailInputs ==
  TypedEmails \cup {<<>>, <<"a","@","b",".","c">>,
                    <<"a",".",".","b","@","c",".","d","e">>,
                    <<"a",".","@","c",".","d","e">>,
                    <<"a","@","b","@","c",".","d","e">>,
                    <<"a","@","b","-","1",".","c",".","D","E">>}

TypedMessages == {Hello, Rep("m", MaxLength + 1)}
MessageInputs ==
  TypedMessages \cup {<<>>, Rep("m", MessageMin - 1), Rep(" ", MessageMin),
                      Rep("m", MessageMax),
                      Rep(" ", MessageMax + 1)}

----------------------------------------------------------------------------
(* The page *)

\* useState initial values, lines 32-40
Init ==
  /\ firstName = <<>>
  /\ lastName = <<>>
  /\ email = <<>>
  /\ selectedQuery = Null
  /\ consent = FALSE
  /\ message = <<>>
  /\ errors = EmptyErrors
  /\ formSubmitted = FALSE
  /\ showPopup = FALSE
  /\ timers = <<>>
  /\ lastEvent = "none"
  /\ lastSubmit = "none"
  /\ priorPending = FALSE

\* mutant: the new valid submit replaces the timers still pending
ScheduleTimerCancelPrev(ts) == <<Delay>>

\* window.setTimeout(cb, 5000): one more one-shot timer, none cancelled
ScheduleTimer(ts) == Append(ts, Delay)

\* mutant: the result is merged into the previous errors
handleFormSubmitMerge ==
  LET validationErrors == validateForm(getFormData)
  IN /\ validationErrors # EmptyErrors \/ Len(timers) < MaxTimers
     /\ formSubmitted' = TRUE
     /\ errors' = validationErrors @@ errors
     /\ IF DOMAIN validationErrors = {}
        THEN showPopup' = TRUE /\ timers' = ScheduleTimer(timers)
        ELSE UNCHANGED <<showPopup, timers>>
     /\ lastEvent' = "submit"
     /\ lastSubmit' = IF DOMAIN validationErrors = {} THEN "valid" ELSE "invalid"
     /\ priorPending' = (timers # <<>>)
     /\ UNCHANGED values

\* mutant: setShowPopup(true) is forgotten
handleFormSubmitNoPopup ==
  LET validationErrors == validateForm(getFormData)
  IN /\ validationErrors # EmptyErrors \/ Len(timers) < MaxTimers
     /\ formSubmitted' = TRUE
     /\ errors' = validationErrors
     /\ IF DOMAIN validationErrors = {}
        THEN timers' = ScheduleTimer(timers) /\ UNCHANGED showPopup
        ELSE UNCHANGED <<showPopup, timers>>
     /\ lastEvent' = "submit"
     /\ lastSubmit' = IF DOMAIN validationErrors = {} THEN "valid" ELSE "invalid"
     /\ priorPending' = (timers # <<>>)
     /\ UNCHANGED values

\* lines 93-108
handleFormSubmit ==
  LET validationErrors == validateForm(getFormData)
  IN /\ validationErrors # EmptyErrors \/ Len(timers) < MaxTimers
     /\ formSubmitted' = TRUE
     /\ errors' = validationErrors
     /\ IF DOMAIN validationErrors = {}
        THEN showPopup' = TRUE /\ timers' = ScheduleTimer(timers)
        ELSE UNCHANGED <<showPopup, timers>>
     /\ lastEvent' = "submit"
     /\ lastSubmit' = IF DOMAIN validationErrors = {} THEN "valid" ELSE "invalid"
     /\ priorPending' = (timers # <<>>)
     /\ UNCHANGED values

\* mutant: the callback leaves the flag alone
TimerCallbackNoHide ==
  /\ timers # <<>>
  /\ Head(timers) = 0
  /\ timers' = Tail(timers)
  /\ lastEvent' = "timer"
  /\ UNCHANGED <<values, errors, formSubmitted, showPopup, lastSubmit, priorPending>>

\* the setTimeout callback of lines 104-106, run when its delay has elapsed
TimerCallback ==
  /\ timers # <<>>
  /\ Head(timers) = 0
  /\ showPopup' = FALSE
  /\ timers' = Tail(timers)
  /\ lastEvent' = "timer"
  /\ UNCHANGED <<values, errors, formSubmitted, lastSubmit, priorPending>>

\* time passes, never past a timer that is due
Tick ==
  /\ timers # <<>>
  /\ Head(timers) > 0
  /\ LET d == IF Head(timers) < TickMs THEN Head(timers) ELSE TickMs
     IN timers' = [i \in 1..Len(timers) |-> timers[i] - d]
  /\ lastEvent' = "tick"
  /\ UNCHANGED <<values, errors, formSubmitted, showPopup, lastSubmit, priorPending>>

\* mutant: only the edited field's entry is kept
PatchErrorsDropPrev(prevErrors, f, newErrors) == f :> Get(newErrors, f)

\* setErrors((prevErrors) => ({ ...prevErrors, f: newErrors.f }))
PatchErrors(prevErrors, f, newErrors) ==
  (f :> Get(newErrors, f)) @@ prevErrors

\* mutant: the formSubmitted test is missing
firstNameOnChangeAlways(v) ==
  /\ firstName' = v
  /\ errors' = PatchErrors(errors, "firstName",
                   validateForm([getFormData EXCEPT !.firstName = v]))
  /\ lastEvent' = "edit"
  /\ UNCHANGED <<lastName, email, selectedQuery, consent, message,
                 formSubmitted, showPopup, timers, lastSubmit, priorPending>>

\* lines 154-166
firstNameOnChange(v) ==
  /\ firstName' = v
  /\ IF formSubmitted
     THEN errors' = PatchErrors(errors, "firstName",
                      validateForm([getFormData EXCEPT !.firstName = v]))
     ELSE UNCHANGED errors
  /\ lastEvent' = "edit"
  /\ UNCHANGED <<lastName, email, selectedQuery, consent, message,
                 formSubmitted, showPopup, timers, lastSubmit, priorPending>>

\* lines 181-193
lastNameOnChange(v) ==
  /\ lastName' = v
  /\ IF formSubmitted
     THEN errors' = PatchErrors(errors, "lastName",
                      validateForm([getFormData EXCEPT !.lastName = v]))
     ELSE UNCHANGED errors
  /\ lastEvent' = "edit"
  /\ UNCHANGED <<firstName, email, selectedQuery, consent, message,
                 formSubmitted, showPopup, timers, lastSubmit, priorPending>>

\* lines 209-221
emailOnChange(v) ==
  /\ email' = v
  /\ IF formSubmitted
     THEN errors' = PatchErrors(errors, "email",
                      validateForm([getFormData EXCEPT !.email = v]))
     ELSE UNCHANGED errors
  /\ lastEvent' = "edit"
  /\ UNCHANGED <<firstName, lastName, selectedQuery, consent, message,
                 formSubmitted, showPopup, timers, lastSubmit, priorPending>>

\* lines 248-260
generalEnquiryOnClick ==
  /\ selectedQuery' = "generalEnquiry"
  /\ IF formSubmitted
     THEN errors' = PatchErrors(errors, "queryType",
                      validateForm([getFormData EXCEPT !.queryType = "generalEnquiry"]))
     ELSE UNCHANGED errors
  /\ lastEvent' = "edit"
  /\ UNCHANGED <<firstName, lastName, email, consent, message,
                 formSubmitted, showPopup, timers, lastSubmit, priorPending>>

\* lines 278-290
supportRequestOnClick ==
  /\ selectedQuery' = "supportRequest"
  /\ IF formSubmitted
     THEN errors' = PatchErrors(errors, "queryType",
                      validateForm([getFormData EXCEPT !.queryType = "supportRequest"]))
     ELSE UNCHANGED errors
  /\ lastEvent' = "edit"
  /\ UNCHANGED <<firstName, lastName, email, consent, message,
                 formSubmitted, showPopup, timers, lastSubmit, priorPending>>

\* lines 313-326; maxLength keeps longer input out of the textarea
messageOnChange(v) ==
  /\ Len(v) <= MaxLength
  /\ message' = v
  /\ IF formSubmitted
     THEN errors' = PatchErrors(errors, "message",
                      validateForm([getFormData EXCEPT !.message = v]))
     ELSE UNCHANGED errors
  /\ lastEvent' = "edit"
  /\ UNCHANGED <<firstName, lastName, email, selectedQuery, consent,
                 formSubmitted, showPopup, timers, lastSubmit, priorPending>>

\* mutant: the errors are computed from the consent before the click
consentCheckOnClickStale ==
  /\ consent' = ~consent
  /\ IF formSubmitted
     THEN errors' = PatchErrors(errors, "consent", validateForm(getFormData))
     ELSE UNCHANGED errors
  /\ lastEvent' = "edit"
  /\ UNCHANGED <<firstName, lastName, email, selectedQuery, message,
                 formSubmitted, showPopup, timers, lastSubmit, priorPending>>

\* lines 350-362
consentCheckOnClick ==
  /\ consent' = ~consent
  /\ IF formSubmitted
     THEN errors' = PatchErrors(errors, "consent",
                      validateForm([getFormData EXCEPT !.consent = ~consent]))
     ELSE UNCHANGED errors
  /\ lastEvent' = "edit"
  /\ UNCHANGED <<firstName, lastName, email, selectedQuery, message,
                 formSubmitted, showPopup, timers, lastSubmit, priorPending>>

Next ==
  \/ \E v \in TypedFirstNames : firstNameOnChange(v)
  \/ \E v \in TypedLastNames : lastNameOnChange(v)
  \/ \E v \in TypedEmails : emailOnChange(v)
  \/ generalEnquiryOnClick
  \/ supportRequestOnClick
  \/ \E v \in TypedMessages : messageOnChange(v)
  \/ consentCheckOnClick
  \/ handleFormSubmit
  \/ TimerCallback
  \/ Tick

Spec == Init /\ [][Next]_vars

\* the event loop runs a due callback, and time does not stop
FairSpec == Spec /\ WF_vars(TimerCallback) /\ WF_vars(Tick)

(* The validator on its own: any form data, then a submit *)
InitValidate ==
  /\ firstName \in NameInputs
  /\ lastName \in LastNameInputs
  /\ email \in EmailInputs
  /\ selectedQuery \in QueryTypes \cup {Null}
  /\ consent \in BOOLEAN
  /\ message \in MessageInputs
  /\ errors = EmptyErrors
  /\ formSubmitted = FALSE
  /\ showPopup = FALSE
  /\ timers = <<>>
  /\ lastEvent = "none"
  /\ lastSubmit = "none"
  /\ priorPending = FALSE

NextValidate == handleFormSubmit

SpecValidate == InitValidate /\ [][NextValidate]_vars

----------------------------------------------------------------------------
(* Properties *)

IsBlank(v) == \A i \in 1..Len(v) : v[i] \in Whitespace
InitialValues == <<<<>>, <<>>, <<>>, Null, FALSE, <<>>>>
LastTimer == timers[Len(timers)]
Changed == {g \in Fields : getFormData'[g] # getFormData[g]}

\* C1: the popup is shown only if the most recent submit produced an empty
\* FormErrors; after a submit with a non-empty result it is not shown.
PopupOnlyAfterValidSubmit == showPopup => lastSubmit = "valid"

\* C2, as claimed: while the timer of the most recent submit, a valid one,
\* still has time to run, the popup is shown, whatever happened before it.
PopupHeldForDelay ==
  (lastSubmit = "valid" /\ timers # <<>> /\ LastTimer > 0) => showPopup

\* C2, amended: a valid submit handled while no timer of an earlier valid
\* submit is pending shows the popup at once, and the popup stays shown
\* until that submit's 5000 ms have run, as long as no further submit occurs.
PopupHeldForDelayWhenAlone ==
  (lastSubmit = "valid" /\ ~priorPending /\ timers # <<>> /\ LastTimer > 0)
    => showPopup

PopupHeldWitness ==
  /\ lastSubmit = "valid" /\ ~priorPending /\ showPopup
  /\ lastEvent = "edit"
  /\ Len(timers) = 1 /\ LastTimer > 0 /\ LastTimer < Delay

\* C3: a valid submit appends its own timer of 5000 ms and cancels none; only
\* the firing of a timer removes one, the oldest, and every firing sets
\* showPopup to false, also while a later submit's timer is still pending.
TimersIndependent ==
  [][/\ (lastEvent' = "submit" /\ lastSubmit' = "valid")
          => (timers' = Append(timers, Delay) /\ showPopup')
     /\ (lastEvent' = "submit" /\ lastSubmit' = "invalid") => timers' = timers
     /\ lastEvent' = "timer" => (~showPopup' /\ timers' = Tail(timers))
     /\ Len(timers') < Len(timers) => lastEvent' = "timer"]_vars

FirstTimerHidWitness ==
  /\ lastEvent = "timer" /\ ~showPopup
  /\ lastSubmit = "valid" /\ priorPending
  /\ timers # <<>>

\* C4: every valid submit is eventually followed by the firing of a timer
\* that leaves showPopup false, whatever is edited or submitted in between;
\* showPopup does not stay true forever.
PopupEventuallyHidden ==
  /\ (lastEvent = "submit" /\ lastSubmit = "valid")
       ~> (lastEvent = "timer" /\ ~showPopup)
  /\ showPopup ~> ~showPopup

HiddenAfterLaterSubmitWitness ==
  /\ lastEvent = "timer" /\ ~showPopup
  /\ lastSubmit = "invalid" /\ priorPending
  /\ timers = <<>>

\* C5: a submit leaves formSubmitted true, FormErrors exactly the result of
\* validateForm on the current values (no earlier entry survives) and the
\* values unchanged; from the initial state all six keys are set and the
\* popup stays hidden.
SubmitReplacesErrors ==
  [][lastEvent' = "submit" =>
       /\ formSubmitted'
       /\ errors' = validateForm(getFormData)
       /\ values' = values
       /\ (~formSubmitted /\ values = InitialValues)
            => (DOMAIN errors' = Fields /\ ~showPopup')]_vars

EmptySubmitWitness ==
  /\ lastEvent = "submit" /\ formSubmitted
  /\ values = InitialValues
  /\ DOMAIN errors = Fields /\ ~showPopup

\* C6: after the first submit an edit changes one field f; errors.f becomes
\* what validateForm gives for f on the new values (undefined when it gives
\* none), and errors.g of every other field g, formSubmitted and showPopup
\* stay as they were.
EditPatchesOneField ==
  [][(formSubmitted /\ lastEvent' = "edit") =>
       /\ formSubmitted'
       /\ showPopup' = showPopup
       /\ \E f \in Fields :
            /\ Changed \subseteq {f}
            /\ Get(errors', f) = Get(validateForm(getFormData'), f)
            /\ \A g \in Fields \ {f} : Get(errors', g) = Get(errors, g)]_vars

EmailFixedWitness ==
  /\ formSubmitted /\ lastEvent = "edit"
  /\ email = JaneAtExample /\ Get(errors, "email") = Undefined
  /\ firstName = <<>> /\ Get(errors, "firstName") = FirstNameMsg
  /\ Get(errors, "consent") = ConsentMsg

\* C7: before the first submit an edit changes the value of one field only;
\* FormErrors stays empty and formSubmitted and showPopup stay false.
PristineEditsOnlyValues ==
  [][(~formSubmitted /\ lastEvent' = "edit") =>
       /\ errors = EmptyErrors /\ errors' = EmptyErrors
       /\ ~formSubmitted'
       /\ ~showPopup /\ ~showPopup'
       /\ Cardinality(Changed) <= 1]_vars

PristineEditWitness ==
  /\ ~formSubmitted /\ lastEvent = "edit"
  /\ firstName = Rep(" ", NameMin) /\ email = <<"a","@","b">> /\ consent
  /\ errors = EmptyErrors /\ ~showPopup

\* the rule of each field as C8 lists it
ViolatesListed(f) ==
  CASE f = "queryType" -> selectedQuery \notin QueryTypes
    [] f = "firstName" -> Len(firstName) < NameMin \/ Len(firstName) > NameMax
    [] f = "lastName" -> Len(lastName) < NameMin \/ Len(lastName) > NameMax
    [] f = "email" -> ~IsEmail(email)
    [] f = "message" -> Len(message) < MessageMin \/ Len(message) > MessageMax
    [] f = "consent" -> consent # TRUE

\* the rule of each field with the whitespace-only case of section 4.1
Violates(f) ==
  \/ ViolatesListed(f)
  \/ f = "firstName" /\ IsBlank(firstName)
  \/ f = "lastName" /\ IsBlank(lastName)
  \/ f = "message" /\ IsBlank(message)

\* C8, as claimed: validateForm sets the key of a field iff that field alone
\* breaks its listed rule (names and message: length out of range).
KeysIffListedRule ==
  formSubmitted => \A f \in Fields : (f \in DOMAIN errors) <=> ViolatesListed(f)

\* C8, amended: validateForm sets the key of a field iff that field alone
\* breaks its rule, where a name or message breaks it when its length is out
\* of range or it is whitespace-only; the result is empty exactly when no
\* field breaks its rule.
KeysIffRule ==
  formSubmitted =>
    /\ \A f \in Fields : (f \in DOMAIN errors) <=> Violates(f)
    /\ (errors = EmptyErrors) <=> (\A f \in Fields : ~Violates(f))

OnlyEmailWitness ==
  /\ formSubmitted /\ lastEvent = "submit"
  /\ DOMAIN errors = {"email"}
  /\ email = <<"a",".","@","c",".","d","e">>

\* C9: for firstName, lastName and message the length rule is tried first: a
\* length out of range gets the length message even for an empty or
\* whitespace-only value, and a whitespace-only value of a length in range
\* gets "This field is required".
LengthRuleFirst ==
  formSubmitted =>
    /\ Get(errors, "firstName") =
         IF Len(firstName) < NameMin \/ Len(firstName) > NameMax THEN FirstNameMsg
         ELSE IF IsBlank(firstName) THEN RequiredMsg ELSE Undefined
    /\ Get(errors, "lastName") =
         IF Len(lastName) < NameMin \/ Len(lastName) > NameMax THEN LastNameMsg
         ELSE IF IsBlank(lastName) THEN RequiredMsg ELSE Undefined
    /\ Get(errors, "message") =
         IF Len(message) < MessageMin \/ Len(message) > MessageMax THEN MessageMsg
         ELSE IF IsBlank(message) THEN RequiredMsg ELSE Undefined

BlankWitness ==
  /\ formSubmitted /\ lastEvent = "submit"
  /\ firstName = Rep(" ", NameMin) /\ errors["firstName"] = RequiredMsg
  /\ message = Rep(" ", MessageMax + 1) /\ errors["message"] = MessageMsg
  /\ lastName = <<>> /\ errors["lastName"] = LastNameMsg

\* C10: once the form has been submitted, errors.f is for every field f what
\* validateForm gives for f on the current values.
ErrorsNeverStale ==
  formSubmitted =>
    \A f \in Fields : Get(errors, f) = Get(validateForm(getFormData), f)

UncheckedAfterPopupWitness ==
  /\ formSubmitted /\ lastEvent = "timer"
  /\ lastSubmit = "valid" /\ ~consent
  /\ Get(errors, "consent") = ConsentMsg
  /\ firstName = Rep(" ", NameMin) /\ Get(errors, "firstName") = RequiredMsg

====
